---- MODULE Spec2Model ----
(***************************************************************************)
(* Model of rps_live_solver.py: the RPS-Minus-One decision function        *)
(* remove_gesture, the hand classifier _assign_hands_to_players and the    *)
(* resolver RPSCustomSolver.solve, driven by detect_hands and main.        *)
(*                                                                         *)
(* Normalized coordinates (floats in [0,1]) are modelled in tenths, so the *)
(* code's threshold 0.5 is the integer 5.  Python's set iteration order    *)
(* and random.choice are nondeterministic choices; an exception raised by  *)
(* the code is an outcome of its own kind.                                 *)
(***************************************************************************)
EXTENDS Integers, Sequences, FiniteSets

VARIABLES hands, pc, my_hands, opponent_hands, result, mine, opp, calls

vars == <<hands, pc, my_hands, opponent_hands, result, mine, opp, calls>>

(* ------------------------------ bounds --------------------------------- *)

\* Most boxes the detector returns in the specification Spec.
MaxHands == 4

\* Most boxes the detector returns in the specification SpecWide.
MaxManyHands == 5

\* Largest class id the detector reports (ids above 2 are not gestures).
MaxClassId == 3

\* Invocations of remove_gesture on the same input in SpecGesture.
MaxCalls == 2

\* x_center values a box may have, in tenths of the image width.
XCenters == {3, 7}

\* y_center values a box may have, in tenths of the image height:
\* just under the threshold (upper half of the frame) and exactly on it.
YCenters == {4, 5}

(* --------------------------- configuration ----------------------------- *)

GESTURES == {"rock", "paper", "scissors"}

GESTURE_ID_MAP == [i \in 0..2 |-> IF i = 0 THEN "rock" ELSE IF i = 1 THEN "paper" ELSE "scissors"]

\* The y_center threshold 0.5, in tenths.
Half == 5

\* The number of hands each player shows.
HandsPerPlayer == 2

Range(s) == {s[i] : i \in DOMAIN s}

(* ------------------------------ Hand ----------------------------------- *)

Hand(gesture_id, x_center, y_center) ==
    [gesture_id |-> gesture_id, x_center |-> x_center, y_center |-> y_center,
     player |-> "None", side |-> "None"]

(* --------------------------- game logic -------------------------------- *)

\* beats with its arguments exchanged.
beats_reversed(a, b) ==
    \/ (b = "rock" /\ a = "scissors")
    \/ (b = "scissors" /\ a = "paper")
    \/ (b = "paper" /\ a = "rock")

\* beats without its last clause.
beats_no_paper(a, b) ==
    \/ (a = "rock" /\ b = "scissors")
    \/ (a = "scissors" /\ b = "paper")

beats(a, b) ==
    \/ (a = "rock" /\ b = "scissors")
    \/ (a = "scissors" /\ b = "paper")
    \/ (a = "paper" /\ b = "rock")

\* A return of remove_gesture: the value and the return statement taken.
Returned(g, via) == [ret |-> g, via |-> via]

\* An exception leaving remove_gesture.
Raised(what) == [ret |-> "None", via |-> what]

\* random.choice(my_hand): any element; IndexError on an empty list.
random_choice(my_hand, via) ==
    IF my_hand = <<>> THEN {Raised("IndexError")}
    ELSE {Returned(my_hand[i], via) : i \in DOMAIN my_hand}

\* list(my_set): the elements of the set in any order.
list_of(S) ==
    {s \in [1..Cardinality(S) -> S] : \A i, j \in DOMAIN s : i # j => s[i] # s[j]}

\* The two-common branch returning the winner of the pair.
pair_branch_winner(my_set) ==
    IF Cardinality(my_set) # 2 THEN {Raised("ValueError")}
    ELSE {Returned(IF beats(l[1], l[2]) THEN l[1] ELSE l[2], "pair") : l \in list_of(my_set)}

\* len(common) == 2: a, b = list(my_set); return the one that is beaten.
pair_branch(my_set) ==
    IF Cardinality(my_set) # 2 THEN {Raised("ValueError")}
    ELSE {Returned(IF beats(l[1], l[2]) THEN l[2] ELSE l[1], "pair") : l \in list_of(my_set)}

\* Rules 2 and 4 and the fall-through to the last return.
rules_branch(common_gesture, my_nc, opp_nc) ==
    IF beats(my_nc, opp_nc) THEN {Returned(my_nc, "rule2")}
    ELSE IF beats(opp_nc, my_nc) THEN {Returned(common_gesture, "rule4")}
    ELSE {Returned("rock", "final")}

\* The set of outcomes of remove_gesture(my_hand, opp_hand).
remove_gesture(my_hand, opp_hand) ==
    LET my_set == Range(my_hand)
        opp_set == Range(opp_hand)
        common == my_set \cap opp_set
        my_unique == my_set \ opp_set
        opp_unique == opp_set \ my_set
    IN  IF Cardinality(common) = 2 THEN pair_branch(my_set)
        ELSE IF Cardinality(common) = 1 THEN
            IF Cardinality(my_unique) # 1 \/ Cardinality(opp_unique) # 1
            THEN random_choice(my_hand, "warning")
            ELSE rules_branch(CHOOSE g \in common : TRUE,
                              CHOOSE g \in my_unique : TRUE,
                              CHOOSE g \in opp_unique : TRUE)
        ELSE IF Cardinality(common) = 0 THEN random_choice(my_hand, "no_common")
        ELSE {Returned("rock", "final")}

(* -------------------- SpecGesture: remove_gesture ---------------------- *)

NoResult == [kind |-> "None", opp_count |-> 0, my_count |-> 0,
             gesture |-> "None", side |-> "None"]

InitGesture ==
    /\ mine \in [1..HandsPerPlayer -> GESTURES]
    /\ opp \in [1..HandsPerPlayer -> GESTURES]
    /\ calls = <<>>
    /\ hands = <<>>
    /\ pc = "pure"
    /\ my_hands = <<>>
    /\ opponent_hands = <<>>
    /\ result = NoResult

CallRemoveGesture ==
    /\ pc = "pure"
    /\ Len(calls) < MaxCalls
    /\ \E r \in remove_gesture(mine, opp) : calls' = Append(calls, r)
    /\ UNCHANGED <<hands, pc, my_hands, opponent_hands, result, mine, opp>>

NextGesture == CallRemoveGesture

SpecGesture == InitGesture /\ [][NextGesture]_vars

(* ------------------------- hand classifier ----------------------------- *)

\* y_center < 0.5 is OPPONENT, anything else is MINE.
player_of(hand) == IF hand.y_center < Half THEN "OPPONENT" ELSE "MINE"

\* The hands of one player, as references (indices) in list order.
hands_of(hs, player) ==
    SelectSeq([i \in 1..Len(hs) |-> i], LAMBDA i : player_of(hs[i]) = player)

\* A sort by x_center in descending order.
RECURSIVE sort_by_x_center_desc(_, _)
sort_by_x_center_desc(refs, hs) ==
    IF refs = <<>> THEN <<>>
    ELSE LET n == Len(refs)
             front == sort_by_x_center_desc(SubSeq(refs, 1, n - 1), hs)
             k == Cardinality({j \in DOMAIN front :
                               hs[front[j]].x_center >= hs[refs[n]].x_center})
         IN  SubSeq(front, 1, k) \o <<refs[n]>> \o SubSeq(front, k + 1, Len(front))

\* list.sort(key=lambda h: h.x_center): ascending and stable.
RECURSIVE sort_by_x_center(_, _)
sort_by_x_center(refs, hs) ==
    IF refs = <<>> THEN <<>>
    ELSE LET n == Len(refs)
             front == sort_by_x_center(SubSeq(refs, 1, n - 1), hs)
             k == Cardinality({j \in DOMAIN front :
                               hs[front[j]].x_center <= hs[refs[n]].x_center})
         IN  SubSeq(front, 1, k) \o <<refs[n]>> \o SubSeq(front, k + 1, Len(front))

\* The side _assign_hands_to_players gives to hand i.
side_after(hs, i, sorted_mine) ==
    IF Len(sorted_mine) >= 2 /\ sorted_mine[1] = i THEN "LEFT"
    ELSE IF Len(sorted_mine) >= 2 /\ sorted_mine[2] = i THEN "RIGHT"
    ELSE hs[i].side

\* _assign_hands_to_players: the annotated hands and the two sorted groups.
assign_hands_to_players(hs) ==
    LET sorted_mine == sort_by_x_center(hands_of(hs, "MINE"), hs)
        sorted_opp == sort_by_x_center(hands_of(hs, "OPPONENT"), hs)
    IN  [hands |-> [i \in DOMAIN hs |->
                      [hs[i] EXCEPT !.player = player_of(hs[i]),
                                    !.side = side_after(hs, i, sorted_mine)]],
         my_hands |-> sorted_mine,
         opponent_hands |-> sorted_opp]

(* ------------------------------ resolver ------------------------------- *)

\* The side mapping with LEFT and RIGHT exchanged.
hand_to_remove_side_swapped(g0, g1, gesture_to_remove) ==
    IF g0 = gesture_to_remove /\ g1 = gesture_to_remove THEN "RIGHT"
    ELSE IF g0 = gesture_to_remove THEN "RIGHT"
    ELSE IF g1 = gesture_to_remove THEN "LEFT"
    ELSE "None"

\* The physical hand showing the gesture to remove.
hand_to_remove_side(g0, g1, gesture_to_remove) ==
    IF g0 = gesture_to_remove /\ g1 = gesture_to_remove THEN "LEFT"
    ELSE IF g0 = gesture_to_remove THEN "LEFT"
    ELSE IF g1 = gesture_to_remove THEN "RIGHT"
    ELSE "None"

\* len(self.opponent_hands) < 2 or len(self.my_hands) < 2
too_few_hands(n_opp, n_my) == n_opp < HandsPerPlayer \/ n_my < HandsPerPlayer

gesture_names(refs, hs) == [j \in DOMAIN refs |-> GESTURE_ID_MAP[hs[refs[j]].gesture_id]]

\* What solve returns (or raises) once remove_gesture has produced r.
solve_result(a, r) ==
    LET n_opp == Len(a.opponent_hands)
        n_my == Len(a.my_hands)
        side == hand_to_remove_side(GESTURE_ID_MAP[a.hands[a.my_hands[1]].gesture_id],
                                    GESTURE_ID_MAP[a.hands[a.my_hands[2]].gesture_id],
                                    r.ret)
    IN  IF r.ret = "None"
        THEN [kind |-> "exception", opp_count |-> n_opp, my_count |-> n_my,
              gesture |-> r.via, side |-> "None"]
        ELSE IF side = "None"
        THEN [kind |-> "logic_error", opp_count |-> n_opp, my_count |-> n_my,
              gesture |-> r.ret, side |-> "None"]
        ELSE [kind |-> "instruction", opp_count |-> n_opp, my_count |-> n_my,
              gesture |-> r.ret, side |-> side]

(* ----------------------- detection, main, solve ------------------------ *)

Init ==
    /\ hands = <<>>
    /\ pc = "load"
    /\ my_hands = <<>>
    /\ opponent_hands = <<>>
    /\ result = NoResult
    /\ mine = <<>>
    /\ opp = <<>>
    /\ calls = <<>>

\* detect_hands: YOLO(model_path) succeeds and inference runs.
LoadModel ==
    /\ pc = "load"
    /\ pc' = "detect"
    /\ UNCHANGED <<hands, my_hands, opponent_hands, result, mine, opp, calls>>

\* detect_hands: YOLO(model_path) raises; the function returns [].
LoadModelFails ==
    /\ pc = "load"
    /\ pc' = "main"
    /\ UNCHANGED <<hands, my_hands, opponent_hands, result, mine, opp, calls>>

\* detect_hands: one iteration of the loop over r.boxes.
DetectBox(limit) ==
    /\ pc = "detect"
    /\ Len(hands) < limit
    /\ \E class_id \in 0..MaxClassId, x \in XCenters, y \in YCenters :
          hands' = IF class_id \in DOMAIN GESTURE_ID_MAP
                   THEN Append(hands, Hand(class_id, x, y))
                   ELSE hands
    /\ UNCHANGED <<pc, my_hands, opponent_hands, result, mine, opp, calls>>

\* detect_hands: return hands.
DetectReturn ==
    /\ pc = "detect"
    /\ pc' = "main"
    /\ UNCHANGED <<hands, my_hands, opponent_hands, result, mine, opp, calls>>

\* main: if not hands, report and return.
MainNoHands ==
    /\ pc = "main"
    /\ hands = <<>>
    /\ result' = [NoResult EXCEPT !.kind = "no_hands"]
    /\ pc' = "done"
    /\ UNCHANGED <<hands, my_hands, opponent_hands, mine, opp, calls>>

\* main: RPSCustomSolver(hands).solve()
Solve ==
    /\ pc = "main"
    /\ hands # <<>>
    /\ LET a == assign_hands_to_players(hands)
           n_opp == Len(a.opponent_hands)
           n_my == Len(a.my_hands)
       IN  /\ hands' = a.hands
           /\ my_hands' = a.my_hands
           /\ opponent_hands' = a.opponent_hands
           /\ IF too_few_hands(n_opp, n_my)
              THEN result' = [kind |-> "count_mismatch", opp_count |-> n_opp,
                              my_count |-> n_my, gesture |-> "None", side |-> "None"]
              ELSE \E r \in remove_gesture(gesture_names(a.my_hands, a.hands),
                                           gesture_names(a.opponent_hands, a.hands)) :
                      result' = solve_result(a, r)
    /\ pc' = "done"
    /\ UNCHANGED <<mine, opp, calls>>

Next ==
    \/ LoadModel
    \/ LoadModelFails
    \/ DetectBox(MaxHands)
    \/ DetectReturn
    \/ MainNoHands
    \/ Solve

Spec == Init /\ [][Next]_vars

NextWide ==
    \/ LoadModel
    \/ LoadModelFails
    \/ DetectBox(MaxManyHands)
    \/ DetectReturn
    \/ MainNoHands
    \/ Solve

SpecWide == Init /\ [][NextWide]_vars

(* ============================= properties ============================== *)

\* The relation "x wins against y" of the game, written out.
Wins == {<<"rock", "scissors">>, <<"scissors", "paper">>, <<"paper", "rock">>}

MySet == Range(mine)
OppSet == Range(opp)
Common == MySet \cap OppSet

(* ---- C1 ---- *)
\* C1: for every pair of two-element gesture lists, remove_gesture returns
\* without raising and the returned gesture is an element of mine; the last
\* return of 'rock' never yields a gesture mine does not contain.
C1_ReturnsElementOfMine ==
    \A i \in DOMAIN calls :
        /\ calls[i].via \notin {"ValueError", "IndexError"}
        /\ calls[i].ret \in MySet

\* An arbitrary-choice return was taken for a player who holds no rock.
C1_Witness ==
    \E i \in DOMAIN calls :
        /\ calls[i].via \in {"warning", "no_common"}
        /\ "rock" \notin MySet
        /\ calls[i].ret \in MySet

(* ---- C2 ---- *)
\* C2 (as stated): for mine = {rock, paper} and opponent = {rock, scissors},
\* in any order, remove_gesture returns "paper".
C2_Original ==
    (MySet = {"rock", "paper"} /\ OppSet = {"rock", "scissors"})
        => \A i \in DOMAIN calls : calls[i].ret = "paper"

\* C2 (amended): for mine = {rock, paper} and opponent = {rock, scissors},
\* in any order, remove_gesture returns "rock", the common gesture, by
\* Rule 4: the opponent's scissors beats the player's paper.
C2_ReturnsRock ==
    (MySet = {"rock", "paper"} /\ OppSet = {"rock", "scissors"})
        => \A i \in DOMAIN calls : calls[i].ret = "rock" /\ calls[i].via = "rule4"

C2_Witness ==
    /\ mine = <<"paper", "rock">>
    /\ opp = <<"rock", "scissors">>
    /\ Len(calls) >= 1
    /\ calls[1].ret = "rock"

(* ---- C3 ---- *)
\* C3 (as stated): for mine = {scissors, rock} and opponent = {paper, rock},
\* in any order, remove_gesture returns "rock".
C3_Original ==
    (MySet = {"scissors", "rock"} /\ OppSet = {"paper", "rock"})
        => \A i \in DOMAIN calls : calls[i].ret = "rock"

\* C3 (amended): for mine = {scissors, rock} and opponent = {paper, rock},
\* in any order, remove_gesture returns "scissors", the player's non-common
\* gesture, by Rule 2: the player's scissors beats the opponent's paper.
C3_ReturnsScissors ==
    (MySet = {"scissors", "rock"} /\ OppSet = {"paper", "rock"})
        => \A i \in DOMAIN calls : calls[i].ret = "scissors" /\ calls[i].via = "rule2"

C3_Witness ==
    /\ mine = <<"scissors", "rock">>
    /\ opp = <<"rock", "paper">>
    /\ Len(calls) >= 1
    /\ calls[1].ret = "scissors"

(* ---- C5 ---- *)
\* C5 (as stated): whenever the intersection of the two gesture sets has
\* size 1 or 2, any two invocations on the same input return the same
\* gesture.
C5_Original ==
    Cardinality(Common) \in {1, 2}
        => \A i, j \in DOMAIN calls : calls[i].ret = calls[j].ret

\* C5 (amended): any two invocations on the same input return the same
\* gesture whenever the intersection has size 2, or has size 1 and the
\* opponent shows two distinct gestures, or the player shows one gesture
\* twice.
C5_Deterministic ==
    (\/ Cardinality(Common) = 2
     \/ (Cardinality(Common) = 1 /\ Cardinality(OppSet) = 2)
     \/ Cardinality(MySet) = 1)
        => \A i, j \in DOMAIN calls : calls[i].ret = calls[j].ret

\* Two invocations on an input with one common gesture, decided by a rule.
C5_Witness ==
    /\ Len(calls) >= 2
    /\ Cardinality(Common) = 1
    /\ calls[1].via \in {"rule2", "rule4"}
    /\ calls[1].ret = calls[2].ret

(* ---- C6 ---- *)
\* C6: when mine and opponent are the same set of two distinct gestures,
\* remove_gesture returns the gesture of the pair that the other one beats,
\* whatever the order of the lists or of the set's iteration.
C6_ReturnsBeatenOfPair ==
    (MySet = OppSet /\ Cardinality(MySet) = 2)
        => \A i \in DOMAIN calls :
              /\ calls[i].ret \in MySet
              /\ \E w \in MySet : <<w, calls[i].ret>> \in Wins

C6_Witness ==
    /\ mine = <<"scissors", "rock">>
    /\ opp = <<"rock", "scissors">>
    /\ Len(calls) >= 1
    /\ calls[1].ret = "scissors"

(* ---- C10 ---- *)
\* C10: when mine and opponent each hold two distinct gestures and share
\* exactly one, exactly one of Rule 2 and Rule 4 fires and the last return
\* is not reached: the result is the player's non-common gesture if it
\* beats the opponent's non-common gesture, and the common gesture if the
\* opponent's non-common gesture beats the player's.
C10_ExactlyOneRule ==
    (Cardinality(MySet) = 2 /\ Cardinality(OppSet) = 2 /\ Cardinality(Common) = 1)
        => LET common_gesture == CHOOSE g \in Common : TRUE
               my_nc == CHOOSE g \in MySet \ OppSet : TRUE
               opp_nc == CHOOSE g \in OppSet \ MySet : TRUE
           IN  /\ (<<my_nc, opp_nc>> \in Wins) # (<<opp_nc, my_nc>> \in Wins)
               /\ \A i \in DOMAIN calls :
                     /\ calls[i].via \in {"rule2", "rule4"}
                     /\ (calls[i].via = "rule2") = (<<my_nc, opp_nc>> \in Wins)
                     /\ <<my_nc, opp_nc>> \in Wins => calls[i].ret = my_nc
                     /\ <<opp_nc, my_nc>> \in Wins => calls[i].ret = common_gesture

\* Rule 4 fired and returned a common gesture other than rock.
C10_Witness ==
    /\ Cardinality(MySet) = 2 /\ Cardinality(OppSet) = 2 /\ Cardinality(Common) = 1
    /\ \E i \in DOMAIN calls : calls[i].via = "rule4" /\ calls[i].ret = "scissors"

(* ---- C4 ---- *)
\* C4: for every list of hands in which the number of SELF hands or of
\* OPPONENT hands differs from two (fewer or more), solve returns the
\* count-mismatch message naming the actual counts, never an instruction.
C4_MismatchUnlessTwoEach ==
    (/\ pc = "done"
     /\ hands # <<>>
     /\ (Len(my_hands) # 2 \/ Len(opponent_hands) # 2))
        => /\ result.kind = "count_mismatch"
           /\ result.my_count = Len(my_hands)
           /\ result.opp_count = Len(opponent_hands)

(* ---- C9 ---- *)
\* C9: for every non-empty list of hands with gesture ids in {0, 1, 2} and
\* any number of SELF and OPPONENT hands, solve returns a message
\* (instruction, count-mismatch or logic-error) and never raises.
C9_SolveNeverRaises ==
    (pc = "done" /\ hands # <<>>)
        => result.kind \in {"instruction", "count_mismatch", "logic_error"}

(* ---- C7 ---- *)
\* C7: with exactly two SELF and exactly two OPPONENT hands, solve returns
\* a removal instruction, never the logic-error message; the side to
\* retract is the side of a SELF hand showing the gesture remove_gesture
\* returned, and it is LEFT when both SELF hands show that gesture.
C7_InstructionNamesMatchingHand ==
    (pc = "done" /\ Len(my_hands) = 2 /\ Len(opponent_hands) = 2)
        => /\ result.kind = "instruction"
           /\ \E j \in DOMAIN my_hands :
                 /\ hands[my_hands[j]].side = result.side
                 /\ GESTURE_ID_MAP[hands[my_hands[j]].gesture_id] = result.gesture
           /\ (\A j \in DOMAIN my_hands :
                  GESTURE_ID_MAP[hands[my_hands[j]].gesture_id] = result.gesture)
                 => result.side = "LEFT"

\* The RIGHT hand is to be retracted while the LEFT one shows another gesture.
C7_Witness ==
    /\ pc = "done"
    /\ Len(my_hands) = 2 /\ Len(opponent_hands) = 2
    /\ result.kind = "instruction"
    /\ result.side = "RIGHT"
    /\ GESTURE_ID_MAP[hands[my_hands[1]].gesture_id] # result.gesture

(* ---- C8 ---- *)
\* C8: after _assign_hands_to_players every hand is OPPONENT if its
\* y_center < 0.5 and MINE otherwise, and the two groups partition the
\* input; with at least two MINE hands exactly one is LEFT and exactly one
\* is RIGHT, x_center(LEFT) <= x_center(RIGHT) and no MINE hand has a
\* smaller x_center than LEFT; with fewer than two MINE hands no side is
\* set; no OPPONENT hand has a side.
C8_Classified ==
    (pc = "done" /\ hands # <<>>)
        => LET MineRefs == {i \in DOMAIN hands : hands[i].player = "MINE"}
               Lefts == {i \in MineRefs : hands[i].side = "LEFT"}
               Rights == {i \in MineRefs : hands[i].side = "RIGHT"}
           IN  /\ \A i \in DOMAIN hands :
                     hands[i].player = IF hands[i].y_center * 2 < 10 THEN "OPPONENT" ELSE "MINE"
               /\ Range(my_hands) = MineRefs
               /\ Range(opponent_hands) = DOMAIN hands \ MineRefs
               /\ Len(my_hands) = Cardinality(MineRefs)
               /\ Len(my_hands) + Len(opponent_hands) = Len(hands)
               /\ \A i \in DOMAIN hands :
                     hands[i].player = "OPPONENT" => hands[i].side = "None"
               /\ Cardinality(MineRefs) < 2 => \A i \in DOMAIN hands : hands[i].side = "None"
               /\ Cardinality(MineRefs) >= 2 =>
                     /\ Cardinality(Lefts) = 1
                     /\ Cardinality(Rights) = 1
                     /\ \A l \in Lefts, r \in Rights :
                           hands[l].x_center <= hands[r].x_center
                     /\ \A l \in Lefts, i \in MineRefs :
                           hands[l].x_center <= hands[i].x_center

\* Three MINE hands and an OPPONENT hand, LEFT strictly left of RIGHT and
\* detected after it.
C8_Witness ==
    /\ pc = "done"
    /\ Len(my_hands) = 3
    /\ Len(opponent_hands) = 1
    /\ hands[my_hands[1]].side = "LEFT"
    /\ hands[my_hands[2]].side = "RIGHT"
    /\ hands[my_hands[1]].x_center < hands[my_hands[3]].x_center
    /\ my_hands[1] > my_hands[2]

====
